---- MODULE Spec2Model ----
(***************************************************************************)
(* The Slack webhook pipeline of DLS_AI_Innovation, in its two variants:   *)
(*   "events": slack_handler/events.py, handle_slack_event (a coroutine    *)
(*             that deduplicates on (dag_name, run_date) against the       *)
(*             persisted event file and runs the four agent calls inline); *)
(*   "app":    app.py, slack_events + process_event + the worker thread    *)
(*             start_event_processor (in-memory timestamp set, a queue and *)
(*             one agent call per event).                                  *)
(* A behaviour runs one variant; Init chooses which.                       *)
(*                                                                         *)
(* Specifications:                                                         *)
(*   Spec          both variants, with process restarts, on a sound disk;  *)
(*   SpecIO        both variants on a disk that damages the log files;     *)
(*   SpecQueue     app.py alone, its worker scheduled fairly;              *)
(*   SpecVerify    verify_slack_signature (app.py) applied to one call;    *)
(*   SpecDispatch  dispatch_action (both agent modules) applied to one     *)
(*                 directive;                                              *)
(*   SpecParse     parse_slack_text (both parsers) applied to one text.    *)
(***************************************************************************)
EXTENDS Naturals, Integers, Sequences, FiniteSets, TLC

VARIABLES
    variant,               \* which program runs: "events" (main.py) or "app" (app.py)
    req,                   \* the inbound requests, by arrival order
    slackFile,             \* contents of SLACK_RESPONSE_FILE, newest first
    agentFile,             \* contents of AGENT_RESPONSE_FILE, newest first
    slackDisk,             \* what opening SLACK_RESPONSE_FILE meets on disk
    agentDisk,             \* what opening AGENT_RESPONSE_FILE meets on disk
    processed_timestamps,  \* app.py: the in-memory set
    event_queue,           \* app.py: queue.Queue()
    worker,                \* app.py: position of start_event_processor
    restarts,              \* number of process restarts so far
    call,                  \* a pure function under check: its name and arguments
    result                 \* what that function returned, once applied

vars == <<variant, req, slackFile, agentFile, slackDisk, agentDisk,
          processed_timestamps, event_queue, worker, restarts, call, result>>

-----------------------------------------------------------------------------
(* Bounds *)

MaxReq == 2

MaxRestarts == 1

Reqs == 1..MaxReq

-----------------------------------------------------------------------------
(* Values *)

\* Python's None, and the marker of a key that a dict does not hold.
None == "None"

Absent == "Absent"

\* dict.get(key): None when the key is absent.
Get(v) == IF v = Absent THEN None ELSE v

\* Python truthiness of an optional string.
Truthy(v) == v \notin {None, Absent, ""}

-----------------------------------------------------------------------------
(* Message texts: a text is a sequence of fragments, the units the regular *)
(* expressions and keyword searches of parse_slack_text look for.          *)
(*   [k |-> "DAG",     v |-> n]  the fragment  DAG *n*                      *)
(*   [k |-> "DAGc",    v |-> n]  the fragment  DAG: *n*                     *)
(*   [k |-> "RunDate", v |-> d]  the fragment  Run Date: *d*                *)
(*   [k |-> "word",    v |-> w]  any other word w                           *)
(* NoText stands for a message event without a text field (text is None). *)

Tok(k, v) == [k |-> k, v |-> v]

NoText == <<Tok("NoneType", "")>>

TextFailKey1 == <<Tok("DAG", "d1"), Tok("word", "failed"), Tok("RunDate", "r1")>>

TextFailKey2 == <<Tok("DAGc", "d1"), Tok("word", "failed"), Tok("RunDate", "r2")>>

TextSuccKey1 == <<Tok("DAG", "d1"), Tok("word", "succeeded"), Tok("RunDate", "r1")>>

TextFailNoDate == <<Tok("DAG", "d1"), Tok("word", "failed")>>

TextFailNoName == <<Tok("word", "failed"), Tok("RunDate", "r1")>>

TextOther == <<Tok("word", "hello")>>

Texts == {TextFailKey1, TextFailKey2, TextSuccKey1, TextFailNoDate,
          TextFailNoName, TextOther, NoText}

\* re.search(...).group(1): the value of the first fragment of one of kinds.
FirstMatch(text, kinds) ==
    LET hits == {i \in 1..Len(text) : text[i].k \in kinds}
    IN  IF hits = {} THEN None
        ELSE text[CHOOSE i \in hits : \A j \in hits : i <= j].v

\* w in cleaned_text.lower()
HasWord(text, w) == \E i \in 1..Len(text) : text[i].k = "word" /\ text[i].v = w

StatusKeyword(text, default) ==
    IF HasWord(text, "failed") THEN "failed"
    ELSE IF HasWord(text, "success") \/ HasWord(text, "succeeded") THEN "success"
    ELSE default

\* text.strip() raises on None: the except branch returns a dict that holds
\* only "error" and "full_text".
ParseError == [dag_name |-> Absent, run_date |-> Absent, status |-> Absent]

\* slack_handler/utils.py: DAG name from "DAG *n*" or "DAG: *n*"; status
\* stays None without a keyword.
parse_slack_text(text) ==
    IF text = NoText THEN ParseError
    ELSE [dag_name |-> FirstMatch(text, {"DAG", "DAGc"}),
          run_date |-> FirstMatch(text, {"RunDate"}),
          status   |-> StatusKeyword(text, None)]

\* parse_slack_event/slack_parser.py: DAG name from "DAG *n*" only; status
\* "unknown" without a keyword.
parse_slack_text_app(text) ==
    IF text = NoText THEN ParseError
    ELSE [dag_name |-> FirstMatch(text, {"DAG"}),
          run_date |-> FirstMatch(text, {"RunDate"}),
          status   |-> StatusKeyword(text, "unknown")]

-----------------------------------------------------------------------------
(* Requests *)

\* What the body and headers of a request amount to for the handler.
Kinds == {"badsig", "badjson", "urlverify", "urlverify_nochallenge",
          "nonmessage", "message"}

\* event.get("ts") in app.py; events.py never reads it.
Timestamps == {"t1", "t2"}

NoResp == [code |-> 0, msg |-> "none"]

Resp(code, msg) == [code |-> code, msg |-> msg]

NewReq ==
    [pc |-> "new", kind |-> "none", ts |-> None, text |-> NoText,
     gate |-> "none", calls |-> 0, failed |-> 0,
     dag_details |-> "unbound", logs |-> "unbound", analysis |-> "unbound",
     slack_message_result |-> "unbound", queries |-> <<>>,
     resp |-> NoResp, wf |-> "none", epoch |-> 0]

\* Requests arrive in index order.
CanArrive(r) ==
    /\ req[r].pc = "new"
    /\ IF r = 1 THEN TRUE ELSE req[r - 1].pc # "new"

Arrived(r, kind, ts, text) ==
    [req[r] EXCEPT !.kind = kind, !.ts = ts, !.text = text, !.epoch = restarts]

Returned(rec, resp) == [rec EXCEPT !.pc = "done", !.resp = resp]

\* Mutant of BoundaryResp: a body that is no JSON is taken for an event that
\* is no message.
BoundaryRespLenientJson(kind) ==
    CASE kind = "badsig" -> Resp(400, "Invalid Slack signature")
      [] kind = "badjson" -> Resp(200, "ok")
      [] kind = "urlverify" -> Resp(200, "challenge")
      [] kind = "urlverify_nochallenge" -> Resp(500, "KeyError")
      [] kind = "nonmessage" -> Resp(200, "ok")

\* Mutant of BoundaryResp: the URL verification is acknowledged like any
\* other event, the challenge is not echoed.
BoundaryRespNoEcho(kind) ==
    CASE kind = "badsig" -> Resp(400, "Invalid Slack signature")
      [] kind = "badjson" -> Resp(400, "Invalid JSON")
      [] kind = "urlverify" -> Resp(200, "ok")
      [] kind = "urlverify_nochallenge" -> Resp(200, "ok")
      [] kind = "nonmessage" -> Resp(200, "ok")

\* The part both handlers share (events.py 27-41, app.py 111-128): the
\* response of a request that is no message event.
BoundaryResp(kind) ==
    CASE kind = "badsig" -> Resp(400, "Invalid Slack signature")
      [] kind = "badjson" -> Resp(400, "Invalid JSON")
      [] kind = "urlverify" -> Resp(200, "challenge")
      [] kind = "urlverify_nochallenge" -> Resp(500, "KeyError")
      [] kind = "nonmessage" -> Resp(200, "ok")

-----------------------------------------------------------------------------
(* Audit log files *)

\* What an open() of a log file can meet: the file holds a JSON list ("ok",
\* and "restored" once it was written again after a damage), does not
\* exist, holds text that is no JSON, cannot be opened at all, or can be
\* opened for reading only or for writing only.
DiskStates ==
    {"ok", "restored", "missing", "unparsable", "unreadable", "readonly",
     "writeonly"}
Readable(state) == state \in {"ok", "restored", "readonly"}
Writable(state) ==
    state \in {"ok", "restored", "missing", "unparsable", "writeonly"}

\* Mutant of load_existing_events: the list last written is returned from
\* memory, whatever became of the file.
load_existing_events_cached(file, state) == file

\* load_existing_events: the list the file holds; [] when it does not exist
\* and when open or json.load raise (the exception is logged).
load_existing_events(file, state) == IF Readable(state) THEN file ELSE <<>>

\* save_as_json, save_events: the file holds data afterwards, or, when
\* open raises, what it held (the exception is logged).
save_as_json(data, file, state) == IF Writable(state) THEN data ELSE file

\* A file that was written exists and holds JSON.
AfterSave(state) ==
    CASE state \in {"ok", "missing"} -> "ok"
      [] state \in {"restored", "unparsable"} -> "restored"
      [] OTHER -> state

\* Mutant of Prepend: the new record is saved without the loaded list.
Overwrite(record, file) == <<record>>

\* Mutant of Prepend: the log is cut to its newest entry before the insert.
PrependTruncating(record, file) ==
    <<record>> \o SubSeq(file, 1, IF Len(file) > 1 THEN 1 ELSE 0)

\* Mutant of Prepend: existing.append(record), the new record goes last.
AppendLast(record, file) == file \o <<record>>

\* existing.insert(0, record); save_as_json(existing, file)
Prepend(record, file) == <<record>> \o file

-----------------------------------------------------------------------------
(* events.py: handle_slack_event *)

message_data(r, parsed) ==
    [id |-> r, dag_name |-> Get(parsed.dag_name),
     run_date |-> Get(parsed.run_date), status |-> Get(parsed.status)]

\* Mutant of is_duplicate: the key is read from the top level of the stored
\* event, which holds no dag_name and no run_date (get returns None).
is_duplicate_toplevel(dag_name, run_date, existing_events) ==
    \E i \in 1..Len(existing_events) : None = dag_name /\ None = run_date

\* Mutant of is_duplicate: only the stored events of status failed mark
\* their key.
is_duplicate_failed_only(dag_name, run_date, existing_events) ==
    \E i \in 1..Len(existing_events) :
        /\ existing_events[i].status = "failed"
        /\ existing_events[i].dag_name = dag_name
        /\ existing_events[i].run_date = run_date

\* any(event.dag_name == dag_name and event.run_date == run_date ...)
is_duplicate(dag_name, run_date, existing_events) ==
    \E i \in 1..Len(existing_events) :
        /\ existing_events[i].dag_name = dag_name
        /\ existing_events[i].run_date = run_date

\* Mutant of HasKey: "or" in place of "and".
HasKeyEither(dag_name, run_date) == Truthy(dag_name) \/ Truthy(run_date)

\* if dag_name and run_date:
HasKey(dag_name, run_date) == Truthy(dag_name) /\ Truthy(run_date)

\* Mutant of TriggersAgent: the status test is dropped.
TriggersAgentAnyStatus(status, dag_name) == Truthy(dag_name)

\* Mutant of TriggersAgent: the test of the name is dropped.
TriggersAgentAnyName(status, dag_name) == status = "failed"

\* if status == "failed" and dag_name:
TriggersAgent(status, dag_name) == status = "failed" /\ Truthy(dag_name)

\* What call k returns when it returns: the details, the logs, the
\* analysis, the receipt of the Slack message.
Result(k) ==
    CASE k = 1 -> "details" [] k = 2 -> "logs" [] k = 3 -> "analysis"
      [] k = 4 -> "sent"

\* Mutant of Query: the analysis is asked of the DAG details.
QueryAnalyzesDetails(k, rec) ==
    [step |-> k,
     dag_name |-> Get(parse_slack_text(rec.text).dag_name),
     embeds |-> CASE k = 3 -> rec.dag_details [] k = 4 -> rec.analysis
                  [] OTHER -> None]

\* The query of call k (lines 117, 131, 137, 144): it names the tool of
\* step k and the DAG, and the f-string of the analysis embeds {logs}, the
\* one of the Slack message {analysis}.
Query(k, rec) ==
    [step |-> k,
     dag_name |-> Get(parse_slack_text(rec.text).dag_name),
     embeds |-> CASE k = 3 -> rec.logs [] k = 4 -> rec.analysis
                  [] OTHER -> None]

\* Lines 27-118, one run of the coroutine without an await that yields to
\* another request: boundary checks, parse, duplicate check, save of the
\* event, and the start of the first agent call.
HandleSlackEvent(r, kind, text) ==
    /\ variant = "events"
    /\ CanArrive(r)
    /\ LET a == Arrived(r, kind, None, text)
           parsed == parse_slack_text(text)
           dag_name == Get(parsed.dag_name)
           run_date == Get(parsed.run_date)
           dup == /\ HasKey(dag_name, run_date)
                  /\ is_duplicate(dag_name, run_date,
                                 load_existing_events(slackFile, slackDisk))
       IN  IF kind # "message"
           THEN /\ req' = [req EXCEPT ![r] = Returned(a, BoundaryResp(kind))]
                /\ UNCHANGED <<slackFile, slackDisk>>
           ELSE IF dup
           THEN /\ req' = [req EXCEPT ![r] =
                      Returned([a EXCEPT !.gate = "dup"],
                               Resp(200, "Duplicate event.  No action taken."))]
                /\ UNCHANGED <<slackFile, slackDisk>>
           ELSE /\ slackFile' =
                      save_as_json(
                          Prepend(message_data(r, parsed),
                                  load_existing_events(slackFile, slackDisk)),
                          slackFile, slackDisk)
                /\ slackDisk' = AfterSave(slackDisk)
                /\ req' = [req EXCEPT ![r] =
                      IF TriggersAgent(Get(parsed.status), dag_name)
                      THEN [a EXCEPT !.gate = "passed", !.pc = "step1", !.calls = 1,
                                     !.queries = <<Query(1, a)>>]
                      ELSE Returned([a EXCEPT !.gate = "passed"], Resp(200, "ok"))]
    /\ UNCHANGED <<call, result, variant, agentFile, agentDisk,
                   processed_timestamps, event_queue, worker, restarts>>

StepOf(pc) ==
    CASE pc = "step1" -> 1 [] pc = "step2" -> 2 [] pc = "step3" -> 3
      [] pc = "step4" -> 4 [] OTHER -> 0

PcOf(k) == CASE k = 1 -> "step1" [] k = 2 -> "step2" [] k = 3 -> "step3"
             [] k = 4 -> "step4"

InFlight(r) == StepOf(req[r].pc) > 0

\* Lines 155-163. dag_name is the name the handler parsed from the text.
agent_response_data(r, rec) ==
    [id |-> r, dag_name |-> Get(parse_slack_text(rec.text).dag_name),
     dag_details |-> rec.dag_details, logs |-> rec.logs,
     analysis |-> rec.analysis,
     slack_message_result |-> rec.slack_message_result]

\* Lines 149-153: the one except clause of the four calls. It assigns the
\* three later results and leaves dag_details as it is.
ExceptClause(rec, k) ==
    [rec EXCEPT !.failed = k, !.logs = "err", !.analysis = "err",
                !.slack_message_result = "err"]

\* The local variable that receives the result of call k.
StoreResult(rec, k) ==
    CASE k = 1 -> [rec EXCEPT !.dag_details = Result(1)]
      [] k = 2 -> [rec EXCEPT !.logs = Result(2)]
      [] k = 3 -> [rec EXCEPT !.analysis = Result(3)]
      [] k = 4 -> [rec EXCEPT !.slack_message_result = Result(4)]

\* Mutant of FinishRun: the response is returned without saving the run.
FinishRunNoSave(r, rec) ==
    /\ req' = [req EXCEPT ![r] = Returned(rec, Resp(200, "Fetched logs and analysis"))]
    /\ UNCHANGED <<agentFile, agentDisk>>

\* Mutant of FinishRun: the outcome log is loaded before the calls are
\* awaited, so the entries of runs that started later are not in the list
\* that is saved.
FinishRunStaleLoad(r, rec) ==
    IF rec.dag_details = "unbound"
    THEN /\ req' = [req EXCEPT ![r] = Returned(rec, Resp(500, "UnboundLocalError"))]
         /\ UNCHANGED <<agentFile, agentDisk>>
    ELSE /\ agentFile' =
              save_as_json(
                  Prepend(agent_response_data(r, rec),
                          SelectSeq(load_existing_events(agentFile, agentDisk),
                                    LAMBDA e : e.id < r)),
                  agentFile, agentDisk)
         /\ agentDisk' = AfterSave(agentDisk)
         /\ req' = [req EXCEPT ![r] = Returned(rec, Resp(200, "Fetched logs and analysis"))]

\* Lines 155-178, run without a yield once the try statement is left:
\* building agent_response_data reads dag_details, which is unbound when
\* the first call raised (UnboundLocalError, answered 500, nothing saved).
FinishRun(r, rec) ==
    IF rec.dag_details = "unbound"
    THEN /\ req' = [req EXCEPT ![r] = Returned(rec, Resp(500, "UnboundLocalError"))]
         /\ UNCHANGED <<agentFile, agentDisk>>
    ELSE /\ agentFile' =
              save_as_json(
                  Prepend(agent_response_data(r, rec),
                          load_existing_events(agentFile, agentDisk)),
                  agentFile, agentDisk)
         /\ agentDisk' = AfterSave(agentDisk)
         /\ req' = [req EXCEPT ![r] = Returned(rec, Resp(200, "Fetched logs and analysis"))]

\* await asyncio.to_thread(agent, ...) of call k returns a result; the
\* coroutine goes on to the next call, or leaves the try after the fourth.
AgentReturns(r) ==
    /\ variant = "events"
    /\ InFlight(r)
    /\ LET k == StepOf(req[r].pc)
           rec == StoreResult(req[r], k)
       IN  IF k < 4
           THEN /\ req' = [req EXCEPT ![r] =
                      [rec EXCEPT !.pc = PcOf(k + 1), !.calls = k + 1,
                                  !.queries = Append(@, Query(k + 1, rec))]]
                /\ UNCHANGED <<agentFile, agentDisk>>
           ELSE FinishRun(r, rec)
    /\ UNCHANGED <<call, result, variant, slackFile, slackDisk,
                   processed_timestamps, event_queue, worker, restarts>>

\* Call k raises (agent() lets a failure of the model call through).
AgentRaises(r) ==
    /\ variant = "events"
    /\ InFlight(r)
    /\ FinishRun(r, ExceptClause(req[r], StepOf(req[r].pc)))
    /\ UNCHANGED <<call, result, variant, slackFile, slackDisk,
                   processed_timestamps, event_queue, worker, restarts>>

-----------------------------------------------------------------------------
(* app.py: slack_events, process_event, start_event_processor *)

NoEvent == 0

IdleWorker == [pc |-> "get", ev |-> NoEvent]

\* Mutant of AlreadyProcessed: an event without a timestamp is never taken
\* for a duplicate (if timestamp and timestamp in processed_timestamps).
AlreadyProcessedWithTs(ts, processed) == ts # None /\ ts \in processed

\* Mutant of AlreadyProcessed: the membership test is skipped.
AlreadyProcessedNever(ts, processed) == FALSE

\* if timestamp in processed_timestamps:
AlreadyProcessed(ts, processed) == ts \in processed

\* Lines 130-164 run without an await: membership test, add, put, response.

SlackEvents(r, kind, ts, text) ==
    /\ variant = "app"
    /\ CanArrive(r)
    /\ LET a == Arrived(r, kind, ts, text)
       IN  IF kind # "message"
           THEN /\ req' = [req EXCEPT ![r] = Returned(a, BoundaryResp(kind))]
                /\ UNCHANGED <<processed_timestamps, event_queue>>
           ELSE IF AlreadyProcessed(ts, processed_timestamps)
           THEN /\ req' = [req EXCEPT ![r] =
                      Returned([a EXCEPT !.gate = "dup"],
                               Resp(200, "Duplicate message. Skipped."))]
                /\ UNCHANGED <<processed_timestamps, event_queue>>
           ELSE /\ processed_timestamps' = processed_timestamps \cup {ts}
                /\ event_queue' = Append(event_queue, r)
                /\ req' = [req EXCEPT ![r] =
                      Returned([a EXCEPT !.gate = "passed", !.wf = "queued"],
                               Resp(200, "Event received and queued for processing."))]
    /\ UNCHANGED <<call, result, variant, slackFile, slackDisk, agentFile,
                   agentDisk, worker, restarts>>

\* process_event lines 73-78: event_data["text_details"]["status"] raises
\* KeyError on the parse-error dict; the outer except logs it.
CallsAgent(parsed) ==
    /\ parsed.status # Absent
    /\ parsed.status = "failed"
    /\ Truthy(Get(parsed.dag_name))

\* event_queue.get() and process_event up to the agent call.
WorkerGet ==
    /\ variant = "app"
    /\ worker.pc = "get"
    /\ event_queue # <<>>
    /\ LET r == Head(event_queue)
       IN  /\ event_queue' = Tail(event_queue)
           /\ IF CallsAgent(parse_slack_text_app(req[r].text))
              THEN /\ worker' = [pc |-> "agent", ev |-> r]
                   /\ req' = [req EXCEPT ![r].wf = "running", ![r].calls = 1]
              ELSE /\ worker' = IdleWorker
                   /\ req' = [req EXCEPT ![r].wf = "handled"]
    /\ UNCHANGED <<call, result, variant, slackFile, slackDisk, agentFile,
                   agentDisk, processed_timestamps, restarts>>

app_agent_response_data(r) ==
    [id |-> r, dag_name |-> Get(parse_slack_text_app(req[r].text).dag_name),
     response |-> "ok"]

\* Lines 84-98: the agent call returned; the response is stored.
WorkerAgentReturns ==
    /\ variant = "app"
    /\ worker.pc = "agent"
    /\ agentFile' =
          save_as_json(
              Prepend(app_agent_response_data(worker.ev),
                      load_existing_events(agentFile, agentDisk)),
              agentFile, agentDisk)
    /\ agentDisk' = AfterSave(agentDisk)
    /\ req' = [req EXCEPT ![worker.ev].wf = "handled"]
    /\ worker' = IdleWorker
    /\ UNCHANGED <<call, result, variant, slackFile, slackDisk,
                   processed_timestamps, event_queue, restarts>>

\* Mutant of WorkerAgentRaises: the except clause stores the error text as
\* the response of the run.
WorkerAgentRaisesSaves ==
    /\ variant = "app"
    /\ worker.pc = "agent"
    /\ agentFile' =
          save_as_json(
              Prepend(app_agent_response_data(worker.ev),
                      load_existing_events(agentFile, agentDisk)),
              agentFile, agentDisk)
    /\ agentDisk' = AfterSave(agentDisk)
    /\ req' = [req EXCEPT ![worker.ev].wf = "handled", ![worker.ev].failed = 1]
    /\ worker' = IdleWorker
    /\ UNCHANGED <<call, result, variant, slackFile, slackDisk,
                   processed_timestamps, event_queue, restarts>>

\* Mutant of WorkerAgentRaises: the exception of the agent call leaves
\* process_event and the loop of the worker thread, which ends.
WorkerAgentRaisesStops ==
    /\ variant = "app"
    /\ worker.pc = "agent"
    /\ req' = [req EXCEPT ![worker.ev].wf = "handled", ![worker.ev].failed = 1]
    /\ worker' = [pc |-> "stopped", ev |-> NoEvent]
    /\ UNCHANGED <<call, result, variant, slackFile, slackDisk, agentFile,
                   agentDisk, processed_timestamps, event_queue, restarts>>

\* Lines 102-104: the agent call raised; the error is logged.
WorkerAgentRaises ==
    /\ variant = "app"
    /\ worker.pc = "agent"
    /\ req' = [req EXCEPT ![worker.ev].wf = "handled", ![worker.ev].failed = 1]
    /\ worker' = IdleWorker
    /\ UNCHANGED <<call, result, variant, slackFile, slackDisk, agentFile,
                   agentDisk, processed_timestamps, event_queue, restarts>>

-----------------------------------------------------------------------------
(* The process stops and starts again: module state is built anew, the    *)
(* files stay. A request in flight and a queued event are lost.           *)

\* Mutant of KilledReq: the run of a request in flight goes on after the
\* restart.
KilledReqResumes(rec) ==
    IF rec.wf \in {"queued", "running"} THEN [rec EXCEPT !.wf = "lost"]
    ELSE rec

KilledReq(rec) ==
    IF StepOf(rec.pc) > 0 THEN [rec EXCEPT !.pc = "killed"]
    ELSE IF rec.wf \in {"queued", "running"} THEN [rec EXCEPT !.wf = "lost"]
    ELSE rec

\* Mutant of FilesAfterRestart: the store does not outlive the process.
FilesLostOnRestart(file) == <<>>

FilesAfterRestart(file) == file

\* A restart of a process that has handled no request changes nothing, so
\* the model restarts only a process that has handled one.
Restart ==
    /\ restarts < MaxRestarts
    /\ \E r \in Reqs : req[r].pc # "new" /\ req[r].epoch = restarts
    /\ restarts' = restarts + 1
    /\ req' = [r \in Reqs |-> KilledReq(req[r])]
    /\ processed_timestamps' = {}
    /\ event_queue' = <<>>
    /\ worker' = IdleWorker
    /\ slackFile' = FilesAfterRestart(slackFile)
    /\ agentFile' = FilesAfterRestart(agentFile)
    /\ UNCHANGED <<slackDisk, agentDisk>>
    /\ UNCHANGED <<call, result, variant>>

-----------------------------------------------------------------------------
(* Specification *)

\* No pure function is under check while a webhook variant runs.
NoCall == [fn |-> "none"]
NoResult == [done |-> FALSE, value |-> "none"]
Returns(v) == [done |-> TRUE, value |-> v]

Init ==
    /\ variant \in {"events", "app"}
    /\ req = [r \in Reqs |-> NewReq]
    /\ slackFile = <<>>
    /\ agentFile = <<>>
    /\ slackDisk = "missing"
    /\ agentDisk = "missing"
    /\ processed_timestamps = {}
    /\ event_queue = <<>>
    /\ worker = IdleWorker
    /\ restarts = 0
    /\ call = NoCall
    /\ result = NoResult

\* What arrives: a request that is no message event, or a message event
\* with its text (and, read by app.py only, its timestamp).
Boundary == Kinds \ {"message"}

\* The steps of the running process: of main.py with events.py, and of
\* app.py with its worker thread.
ServeEvents ==
    \/ \E r \in Reqs, kind \in Boundary : HandleSlackEvent(r, kind, NoText)
    \/ \E r \in Reqs, text \in Texts : HandleSlackEvent(r, "message", text)
    \/ \E r \in Reqs : AgentReturns(r)
    \/ \E r \in Reqs : AgentRaises(r)

ServeApp ==
    \/ \E r \in Reqs, kind \in Boundary : SlackEvents(r, kind, None, NoText)
    \/ \E r \in Reqs, ts \in Timestamps \cup {None}, text \in Texts :
          SlackEvents(r, "message", ts, text)
    \/ WorkerGet
    \/ WorkerAgentReturns
    \/ WorkerAgentRaises

Serve == ServeEvents \/ ServeApp

Next == Serve \/ Restart

Spec == Init /\ [][Next]_vars

-----------------------------------------------------------------------------
(* Vocabulary of the properties *)

\* The incident the running variant extracts from the text of request r.
Incident(r) ==
    IF variant = "events" THEN parse_slack_text(req[r].text)
    ELSE parse_slack_text_app(req[r].text)

DagOf(r) == Get(Incident(r).dag_name)

DateOf(r) == Get(Incident(r).run_date)

IsMessage(r) == req[r].kind = "message"

\* Both parts of the deduplication key are present.
Keyed(r) == IsMessage(r) /\ Truthy(DagOf(r)) /\ Truthy(DateOf(r))

SameKey(r1, r2) == DagOf(r1) = DagOf(r2) /\ DateOf(r1) = DateOf(r2)

\* A failed incident that names its workflow: the one that starts a run.
FailedIncident(r) ==
    IsMessage(r) /\ Get(Incident(r).status) = "failed" /\ Truthy(DagOf(r))

Passed(r) == req[r].gate = "passed"

Dup(r) == req[r].gate = "dup"

Answered(r) == req[r].pc = "done"

\* Number of entries of a log that request r wrote.
EntriesOf(file, r) == Cardinality({i \in 1..Len(file) : file[i].id = r})

-----------------------------------------------------------------------------
(* C1 *)

\* C1 (as claimed): in events.py, when the same authenticated message with
\* workflow name, run date and status failed has been submitted N >= 1
\* times one after another and every submission has been answered, the
\* workflow-outcome log holds exactly one entry, and submissions 2..N were
\* answered 200 with the duplicate message and started no workflow step.
C1_Idempotence ==
    ( /\ variant = "events"
      /\ restarts = 0
      /\ Answered(1)
      /\ Keyed(1) /\ FailedIncident(1)
      /\ \A r \in Reqs : req[r].pc \in {"new", "done"}
      /\ \A r \in Reqs : req[r].pc = "done" =>
             IsMessage(r) /\ req[r].text = req[1].text )
    => /\ Len(agentFile) = 1
       /\ \A r \in Reqs \ {1} : req[r].pc = "done" =>
             /\ req[r].resp = Resp(200, "Duplicate event.  No action taken.")
             /\ req[r].calls = 0

-----------------------------------------------------------------------------
(* C2 *)

\* C2 (as claimed): of two requests handled by the same process that carry
\* the same (workflow name, run date) key, at most one passes the duplicate
\* check, in events.py and in app.py.
C2_AtomicGateByKey ==
    \A r1, r2 \in Reqs :
        ( /\ r1 # r2
          /\ Keyed(r1) /\ Keyed(r2) /\ SameKey(r1, r2)
          /\ req[r1].epoch = req[r2].epoch )
        => ~(Passed(r1) /\ Passed(r2))

\* C2 (amended): of two requests handled by the same process that carry the
\* same deduplication key, at most one passes the duplicate check, under
\* every interleaving; the key is (workflow name, run date) in events.py
\* and the message timestamp in app.py.
C2_AtomicGate ==
    \A r1, r2 \in Reqs :
        ( /\ r1 # r2
          /\ IsMessage(r1) /\ IsMessage(r2)
          /\ req[r1].epoch = req[r2].epoch
          /\ Passed(r1) /\ Passed(r2) )
        => IF variant = "events"
           THEN ~(Keyed(r1) /\ Keyed(r2) /\ SameKey(r1, r2))
           ELSE req[r1].ts # req[r2].ts

\* Two deliveries of one key overlap: the second is answered as a duplicate
\* while the workflow of the first is still running.
C2_Witness ==
    /\ variant = "events"
    /\ \E r1, r2 \in Reqs :
          /\ r1 # r2
          /\ Keyed(r1) /\ Keyed(r2) /\ SameKey(r1, r2)
          /\ req[r1].epoch = req[r2].epoch
          /\ InFlight(r1) /\ Passed(r1)
          /\ Dup(r2)

-----------------------------------------------------------------------------
(* C3 *)

\* C3 (as claimed): in events.py every failed incident that passed the
\* duplicate check has, once its request is answered, its WorkflowRun in
\* the workflow-outcome log, whichever of the four calls failed.
C3_TotalCompletion ==
    \A r \in Reqs :
        ( /\ variant = "events"
          /\ FailedIncident(r) /\ Passed(r) /\ Answered(r) )
        => EntriesOf(agentFile, r) = 1

-----------------------------------------------------------------------------
(* C4 *)

\* The result recorded for step k of the run of a request.
StepResult(rec, k) ==
    CASE k = 1 -> rec.dag_details [] k = 2 -> rec.logs
      [] k = 3 -> rec.analysis [] k = 4 -> rec.slack_message_result

\* C4 (as claimed): in events.py, when step k of a run failed, the error
\* text is the result of step k and all four steps were still executed.
C4_NoStepAborts ==
    \A r \in Reqs :
        ( /\ variant = "events"
          /\ Answered(r)
          /\ req[r].failed > 0 )
        => /\ StepResult(req[r], req[r].failed) = "err"
           /\ req[r].calls = 4

-----------------------------------------------------------------------------
(* C5 *)

\* C5 (as claimed): in either variant, once an event with both key parts
\* passed the duplicate check, no later delivery of that same event passes
\* it again, restarts of the process included.
C5_DurableMark ==
    \A r1, r2 \in Reqs :
        ( /\ r1 < r2
          /\ Keyed(r1) /\ IsMessage(r2)
          /\ req[r2].text = req[r1].text /\ req[r2].ts = req[r1].ts
          /\ Passed(r1) )
        => ~Passed(r2)

\* C5 (amended): in events.py a key that passed the duplicate check stays
\* in the persisted event file, and every later event with that key is a
\* duplicate, also after a restart. In app.py the mark (the timestamp) lasts
\* only for the lifetime of the process: a later message with that timestamp
\* in the same lifetime is a duplicate.
C5_DurableMarkEvents ==
    /\ variant = "events" =>
          /\ \A r \in Reqs : Keyed(r) /\ Passed(r) =>
                is_duplicate(DagOf(r), DateOf(r), slackFile)
          /\ \A r1, r2 \in Reqs :
                ( /\ r1 < r2
                  /\ Keyed(r1) /\ Keyed(r2) /\ SameKey(r1, r2)
                  /\ Passed(r1) )
                => Dup(r2)
    /\ variant = "app" =>
          /\ \A r \in Reqs : Passed(r) /\ req[r].epoch = restarts =>
                req[r].ts \in processed_timestamps
          /\ \A r1, r2 \in Reqs :
                ( /\ r1 < r2
                  /\ IsMessage(r1) /\ IsMessage(r2)
                  /\ req[r1].ts = req[r2].ts
                  /\ req[r1].epoch = req[r2].epoch
                  /\ Passed(r1) )
                => Dup(r2)

\* A key marked before a restart makes a delivery after it a duplicate.
C5_Witness ==
    /\ variant = "events"
    /\ \E r1, r2 \in Reqs :
          /\ r1 < r2
          /\ Keyed(r1) /\ Keyed(r2) /\ SameKey(r1, r2)
          /\ req[r1].epoch < req[r2].epoch
          /\ Passed(r1) /\ Dup(r2)

-----------------------------------------------------------------------------
(* C6 *)

\* C6 (as claimed): in either variant a message whose incident lacks the
\* workflow name or the run date is never answered as a duplicate.
C6_PartialKeyNeverDup ==
    \A r \in Reqs : IsMessage(r) /\ ~Keyed(r) => ~Dup(r)

\* C6 (amended): in events.py a message whose incident lacks the workflow
\* name or the run date always passes the duplicate check and is processed
\* (its event is saved, and the workflow started if it is a failed incident
\* with a workflow name), however often it is submitted. In app.py the
\* duplicate check reads the message timestamp alone: a message is a
\* duplicate exactly when an earlier message of the same process lifetime
\* carried its timestamp, whatever fields its incident has.
C6_PartialKey ==
    /\ variant = "events" =>
          \A r \in Reqs : IsMessage(r) /\ ~Keyed(r) =>
              /\ Passed(r)
              /\ EntriesOf(slackFile, r) = 1
              /\ FailedIncident(r) => req[r].calls >= 1
    /\ variant = "app" =>
          \A r \in Reqs : IsMessage(r) =>
              /\ Passed(r) \/ Dup(r)
              /\ Dup(r) <=> \E r1 \in Reqs :
                               /\ r1 < r
                               /\ IsMessage(r1)
                               /\ req[r1].ts = req[r].ts
                               /\ req[r1].epoch = req[r].epoch

\* The same text without a run date, submitted twice: both pass the check
\* and both start the workflow.
C6_Witness ==
    /\ variant = "events"
    /\ \E r1, r2 \in Reqs :
          /\ r1 < r2
          /\ IsMessage(r1) /\ IsMessage(r2)
          /\ req[r1].text = req[r2].text
          /\ ~Keyed(r1)
          /\ Passed(r1) /\ Passed(r2)
          /\ req[r1].calls >= 1 /\ req[r2].calls >= 1

-----------------------------------------------------------------------------
(* C7 *)

\* C7 (as claimed, for events.py): every answered message event has exactly
\* one entry in the event-audit log, duplicates included.
C7_OneAuditEntryPerEvent ==
    \A r \in Reqs : variant = "events" /\ IsMessage(r) /\ Answered(r) =>
        EntriesOf(slackFile, r) = 1

\* C7 (amended): in events.py a message event has exactly one entry in the
\* event-audit log from the moment it passed the duplicate check (before
\* the first workflow step and before the handler returns), and a duplicate
\* has none, so N submissions of one keyed event leave one entry. app.py
\* writes no event-audit entry at all.
C7_AuditEntryUnlessDuplicate ==
    /\ variant = "events" =>
          /\ \A r \in Reqs : IsMessage(r) =>
                EntriesOf(slackFile, r) = IF Passed(r) THEN 1 ELSE 0
          /\ Len(slackFile) = Cardinality({r \in Reqs : Passed(r)})
    /\ variant = "app" => slackFile = <<>>

\* Two answered submissions of one keyed event, one entry in the log.
C7_Witness ==
    /\ variant = "events"
    /\ Len(slackFile) = 1
    /\ \E r1, r2 \in Reqs :
          /\ r1 < r2
          /\ Keyed(r1) /\ Keyed(r2) /\ SameKey(r1, r2)
          /\ Answered(r1) /\ Answered(r2)
          /\ Passed(r1) /\ Dup(r2)

-----------------------------------------------------------------------------
(* C8 *)

NotFailed(r) == IsMessage(r) /\ Get(Incident(r).status) # "failed"

\* C8 (as claimed): an answered message whose status is not failed made no
\* capability call, has no entry in the workflow-outcome log and has
\* exactly one entry in the event-audit log.
C8_NoOpRouting ==
    \A r \in Reqs : NotFailed(r) /\ Answered(r) =>
        /\ req[r].calls = 0
        /\ EntriesOf(agentFile, r) = 0
        /\ EntriesOf(slackFile, r) = 1

\* C8 (amended): a message whose status is not failed never makes a
\* capability call and never gets an entry in the workflow-outcome log. Its
\* event-audit entry is exactly one in events.py unless it is answered as a
\* duplicate (then none); in app.py it has none.
C8_NoOpRoutingNoRun ==
    \A r \in Reqs : NotFailed(r) =>
        /\ req[r].calls = 0
        /\ ~InFlight(r)
        /\ req[r].wf # "running"
        /\ EntriesOf(agentFile, r) = 0
        /\ EntriesOf(slackFile, r) =
              IF variant = "events" /\ Passed(r) THEN 1 ELSE 0

\* A succeeded incident with a full key was answered: one event-audit
\* entry, no workflow outcome.
C8_Witness ==
    /\ variant = "events"
    /\ agentFile = <<>>
    /\ \E r \in Reqs :
          /\ Keyed(r)
          /\ Get(Incident(r).status) = "success"
          /\ Answered(r) /\ Passed(r)
          /\ EntriesOf(slackFile, r) = 1

-----------------------------------------------------------------------------
(* C9 *)

\* C9 (as claimed, for message events): every answered message event of an
\* authenticated request with a JSON body is answered 200.
C9_Always200 ==
    \A r \in Reqs : IsMessage(r) /\ Answered(r) => req[r].resp.code = 200

-----------------------------------------------------------------------------
(* C10 *)

\* C10 (as claimed): the response to an accepted failed-incident event does
\* not wait for the workflow: whenever a workflow step of the event has
\* been started, the response has been returned.
C10_AckDecoupled ==
    \A r \in Reqs :
        FailedIncident(r) /\ Passed(r) /\ req[r].calls >= 1 =>
            req[r].resp.code = 200

\* C10 (amended): in app.py every message that passed the duplicate check
\* has been answered "queued" by the step that enqueued it, before and
\* whatever the worker does with it. In events.py the workflow runs inside
\* the handler: an accepted failed incident has no response while one of its
\* calls is pending, and a 200 response only once its run is saved.
C10_AckDecoupledQueue ==
    /\ variant = "app" =>
          \A r \in Reqs : Passed(r) =>
              /\ Answered(r)
              /\ req[r].resp = Resp(200, "Event received and queued for processing.")
    /\ variant = "events" =>
          \A r \in Reqs : FailedIncident(r) /\ Passed(r) =>
              /\ InFlight(r) => req[r].resp = NoResp
              /\ Answered(r) => req[r].calls >= 1
              /\ req[r].resp.code = 200 => EntriesOf(agentFile, r) = 1

\* app.py: the event was acknowledged and its agent call is still pending.
C10_Witness ==
    /\ variant = "app"
    /\ \E r \in Reqs :
          /\ FailedIncident(r)
          /\ req[r].wf = "running"
          /\ worker.pc = "agent" /\ worker.ev = r
          /\ req[r].resp.code = 200

-----------------------------------------------------------------------------
(* app.py, verify_slack_signature: the signature check at the boundary *)

\* The freshness window, 60 * 5 seconds.
Window == 300

\* The clock reading around which the header timestamps are drawn, and the
\* distances from it that are tried.
NowSec == 1000
Offsets == {0 - (Window + 1), 0 - Window, 0 - (Window - 1), 0,
            Window - 1, Window, Window + 1}

\* time.time() and float(header) are floats: whole seconds and, possibly,
\* half a second more.
Time(sec, half) == [k |-> "num", sec |-> sec, half |-> half]
Twice(t) == 2 * t.sec + t.half
Abs(x) == IF x < 0 THEN 0 - x ELSE x
Nows == {Time(NowSec, h) : h \in {0, 1}}

\* The X-Slack-Request-Timestamp header: absent, empty, not a number
\* ("abc"), the string "nan", or the decimal text of a time.
TsAbsent == [k |-> "absent", sec |-> 0, half |-> 0]
TsEmpty == [k |-> "empty", sec |-> 0, half |-> 0]
TsGarbage == [k |-> "garbage", sec |-> 0, half |-> 0]
TsNan == [k |-> "nan", sec |-> 0, half |-> 0]
TsHeaders ==
    {TsAbsent, TsEmpty, TsGarbage, TsNan}
        \cup {Time(NowSec + d, h) : d \in Offsets, h \in {0, 1}}

\* hmac.new(secret, "v0:<t>:<body>", sha256).hexdigest() behind "v0=": the
\* digest is taken as collision free, so that it is determined by, and
\* determines, the secret, the timestamp and the body it was computed from.
hmac(secret, t, body) == [k |-> "sig", secret |-> secret, t |-> t, body |-> body]

SLACK_SIGNING_SECRET == "s1"
Secrets == {SLACK_SIGNING_SECRET, "s2"}
Bodies == {"b1", "b2"}

\* The X-Slack-Signature header: absent, empty, or a signature some sender
\* computed from a secret, a timestamp and a body.
SigAbsent == [k |-> "absent", secret |-> "", t |-> 0, body |-> ""]
SigEmpty == [k |-> "empty", secret |-> "", t |-> 0, body |-> ""]
SigHeaders ==
    {SigAbsent, SigEmpty}
        \cup {hmac(s, NowSec + d, b) : s \in Secrets, d \in Offsets, b \in Bodies}

\* `not slack_signature or not slack_timestamp`
MissingHeader(slack_signature, slack_timestamp) ==
    \/ slack_signature.k \in {"absent", "empty"}
    \/ slack_timestamp.k \in {"absent", "empty"}

\* float(slack_timestamp): TypeError for None, ValueError for text that is
\* no number, nan for "nan", the time otherwise.
float(slack_timestamp) ==
    CASE slack_timestamp.k = "absent" -> [slack_timestamp EXCEPT !.k = "TypeError"]
      [] slack_timestamp.k \in {"empty", "garbage"} ->
            [slack_timestamp EXCEPT !.k = "ValueError"]
      [] OTHER -> slack_timestamp

\* `abs(time.time() - slack_timestamp) > 60 * 5`; every comparison with nan
\* is false.
OutsideWindowInclusive(now, slack_timestamp) ==
    /\ slack_timestamp.k = "num"
    /\ Abs(Twice(now) - Twice(slack_timestamp)) >= 2 * Window

OutsideWindow(now, slack_timestamp) ==
    /\ slack_timestamp.k = "num"
    /\ Abs(Twice(now) - Twice(slack_timestamp)) > 2 * Window

\* int(slack_timestamp) of a time that is not negative drops the fraction.
int(slack_timestamp) == slack_timestamp.sec

compare_digest(a, b) == a = b

\* What verify_slack_signature(headers, raw_body) returns at clock reading
\* now: "True", "False", or the name of the exception that leaves it.
verify_slack_signature(headers, raw_body, now) ==
    LET slack_signature == headers.signature
        slack_timestamp == float(headers.timestamp)
    IN  IF MissingHeader(headers.signature, headers.timestamp) THEN "False"
        ELSE IF slack_timestamp.k = "TypeError" THEN "TypeError"
        ELSE IF slack_timestamp.k = "ValueError" THEN "False"
        ELSE IF OutsideWindow(now, slack_timestamp) THEN "False"
        ELSE IF slack_timestamp.k = "nan" THEN "ValueError"
        ELSE IF compare_digest(
                    hmac(SLACK_SIGNING_SECRET, int(slack_timestamp), raw_body),
                    slack_signature)
        THEN "True" ELSE "False"

\* Both webhook variants idle: the state in which a pure function is applied.
Quiescent ==
    /\ variant = "app"
    /\ req = [r \in Reqs |-> NewReq]
    /\ slackFile = <<>>
    /\ agentFile = <<>>
    /\ slackDisk = "missing"
    /\ agentDisk = "missing"
    /\ processed_timestamps = {}
    /\ event_queue = <<>>
    /\ worker = IdleWorker
    /\ restarts = 0

program == <<variant, req, slackFile, agentFile, slackDisk, agentDisk,
             processed_timestamps, event_queue, worker, restarts>>

VerifyCalls ==
    [fn : {"verify_slack_signature"}, signature : SigHeaders,
     timestamp : TsHeaders, raw_body : Bodies, now : Nows]

InitVerify == Quiescent /\ call \in VerifyCalls /\ result = NoResult

ApplyVerify ==
    /\ call.fn = "verify_slack_signature"
    /\ ~result.done
    /\ result' = Returns(verify_slack_signature(call, call.raw_body, call.now))
    /\ UNCHANGED <<program, call>>

SpecVerify == InitVerify /\ [][ApplyVerify]_vars

\* The call was applied to a request signed, with the server's secret, over
\* the timestamp header's whole seconds and the body that was sent.
CorrectlySigned ==
    /\ call.timestamp.k = "num"
    /\ call.signature =
          hmac(SLACK_SIGNING_SECRET, call.timestamp.sec, call.raw_body)

WholeSeconds == call.now.half = 0 /\ call.timestamp.half = 0

\* C11: with a correct signature and whole-second values,
\* verify_slack_signature rejects exactly when |now - timestamp| > 300:
\* 301 seconds off is rejected, 300 and 299 are accepted, in the past and in
\* the future alike.
C11_FreshnessWindow ==
    (result.done /\ CorrectlySigned /\ WholeSeconds) =>
        LET d == call.now.sec - call.timestamp.sec
        IN  /\ result.value \in {"True", "False"}
            /\ result.value = "False" <=> Abs(d) > Window
            /\ Abs(d) = Window + 1 => result.value = "False"
            /\ Abs(d) = Window - 1 => result.value = "True"
            /\ Abs(d) = Window => result.value = "True"

\* A correctly signed request exactly 300 seconds old was accepted.
C11_Witness ==
    /\ result.done /\ CorrectlySigned /\ WholeSeconds
    /\ call.now.sec - call.timestamp.sec = Window
    /\ result.value = "True"

\* C12: verify_slack_signature returns False, and does not raise, whenever
\* the signature header or the timestamp header is absent or empty or the
\* timestamp header is no number ("abc", "nan"); it returns True only if
\* both headers are present, the timestamp lies within the window and the
\* supplied signature is the one computed from the secret, the timestamp
\* and the body.
C12_RejectsMalformed ==
    result.done =>
        /\ (\/ call.signature.k \in {"absent", "empty"}
            \/ call.timestamp.k \in {"absent", "empty", "garbage", "nan"})
              => result.value = "False"
        /\ result.value = "True" =>
              /\ call.signature.k = "sig"
              /\ call.timestamp.k = "num"
              /\ Abs(Twice(call.now) - Twice(call.timestamp)) <= 2 * Window
              /\ call.signature =
                    hmac(SLACK_SIGNING_SECRET, call.timestamp.sec, call.raw_body)

-----------------------------------------------------------------------------
(* The boundary of both handlers *)

Rejected(r) == req[r].kind \in {"badsig", "badjson"}

\* The stores of both variants: the two audit logs, the timestamp set and
\* the queue with its worker.
stores == <<slackFile, agentFile, processed_timestamps, event_queue, worker>>

-----------------------------------------------------------------------------
(* agent_handler/agent.py and agent.py: dispatch_action *)

\* JSON values of a directive: a string, or the field is missing.
Str(s) == [k |-> "str", v |-> s]
Missing == [k |-> "absent", v |-> ""]
Raise(exception) == [k |-> "raise", v |-> exception]

\* The two agent modules, each with its ACTION_REGISTRY: action name to the
\* class of the handler.
Modules == {"agent_handler/agent.py", "agent.py"}

ACTION_REGISTRY(module) ==
    IF module = "agent_handler/agent.py"
    THEN ("fetch_dag_details" :> "FetchDagDetailsAction")
            @@ ("fetch_logs" :> "FetchLogsAction")
            @@ ("analyze_logs" :> "AnalyzeLogsAction")
            @@ ("answer" :> "AnswerAction")
            @@ ("send_to_slack" :> "SendToSlackAction")
            @@ ("save_dag_details" :> "SaveDagDetailsAction")
    ELSE ("list_dags" :> "ListDagsAction")
            @@ ("fetch_logs" :> "FetchLogsAction")
            @@ ("answer" :> "AnswerAction")

\* The "action" field of a directive: a registered name, a name no registry
\* holds, the empty string, null, a value that cannot be hashed (a JSON
\* list), or no field at all.
Unhashable == "[]"
ActionNames ==
    {"fetch_dag_details", "fetch_logs", "analyze_logs", "answer",
     "send_to_slack", "save_dag_details", "list_dags",
     "Answer", "delete_dag", "", None, Unhashable, Absent}

Arguments == {Str(""), Str("a1"), Str("a2"), Missing}

\* dict.get(key, default) on the directive; absent is how a missing field
\* of that kind shows.
GetOr(v, absent, default) == IF v = absent THEN default ELSE v

\* Mutant of RegistryGet: the default is an instance of the base class.
RegistryGetBase(module, action_type, default) ==
    IF action_type \in DOMAIN ACTION_REGISTRY(module)
    THEN ACTION_REGISTRY(module)[action_type]
    ELSE "BaseAction"

\* ACTION_REGISTRY.get(action_type, default)
RegistryGet(module, action_type, default) ==
    IF action_type \in DOMAIN ACTION_REGISTRY(module)
    THEN ACTION_REGISTRY(module)[action_type]
    ELSE default

\* handler.run(argument): AnswerAction returns its argument, BaseAction
\* raises, every other handler returns what its tool makes of the argument.
run(handler, argument) ==
    CASE handler = "AnswerAction" -> argument
      [] handler = "BaseAction" -> Raise("NotImplementedError")
      [] handler = "ListDagsAction" -> [k |-> handler, v |-> ""]
      [] OTHER -> [k |-> handler, v |-> argument.v]

dispatch_action(module, response_json) ==
    LET action_type == GetOr(response_json.action, Absent, "answer")
        argument == GetOr(response_json.argument, Missing, Str(""))
    IN  IF action_type = Unhashable THEN Raise("TypeError")
        ELSE run(RegistryGet(module, action_type, "AnswerAction"), argument)

DispatchCalls ==
    [fn : {"dispatch_action"}, module : Modules,
     action : ActionNames, argument : Arguments]

InitDispatch == Quiescent /\ call \in DispatchCalls /\ result = NoResult

ApplyDispatch ==
    /\ call.fn = "dispatch_action"
    /\ ~result.done
    /\ result' = Returns(dispatch_action(call.module,
                    [action |-> call.action, argument |-> call.argument]))
    /\ UNCHANGED <<program, call>>

SpecDispatch == InitDispatch /\ [][ApplyDispatch]_vars

\* The directive names an action its module's registry does not hold, or
\* names none.
UnknownName ==
    /\ call.action # Unhashable
    /\ call.action \notin DOMAIN ACTION_REGISTRY(call.module)

\* C14: for a directive whose action name is no key of ACTION_REGISTRY, or
\* that has no action field, and for every argument a, dispatch_action
\* returns what dispatching "answer" with a returns, which is a itself; it
\* does not raise.
C14_DispatchFallback ==
    (result.done /\ UnknownName) =>
        /\ result.value.k # "raise"
        /\ result.value =
              dispatch_action(call.module,
                  [action |-> "answer", argument |-> call.argument])
        /\ call.argument # Missing => result.value = call.argument

\* An unregistered name was dispatched with a non-empty argument and the
\* argument came back.
C14_Witness ==
    /\ result.done
    /\ call.action = "delete_dag"
    /\ call.argument = Str("a1")
    /\ result.value = Str("a1")

-----------------------------------------------------------------------------
(* The audit logs *)

\* new is old with one record put in front of it, a record of a request
\* that had none in old.
PutInFront(old, new) ==
    /\ Len(new) = Len(old) + 1
    /\ SubSeq(new, 2, Len(new)) = old
    /\ \A i \in 1..Len(old) : old[i].id # new[1].id

\* C15: every append to an audit log puts the new record at index 0 of what
\* the log held and writes the whole list back, the previous contents
\* following unchanged from index 1 on (the first append to a file that
\* does not exist yields the one record); so the log lists its records in
\* reverse order of their append: in the event log, whose records are
\* appended in order of arrival, later requests before earlier ones.
C15_NewestFirst ==
    /\ [][/\ slackFile' # slackFile => PutInFront(slackFile, slackFile')
          /\ agentFile' # agentFile => PutInFront(agentFile, agentFile')]_vars
    /\ [](\A i, j \in 1..Len(slackFile) :
            i < j => slackFile[i].id > slackFile[j].id)

\* Two appends to the event log: the second record lies in front of the
\* first.
C15_Witness ==
    /\ Len(slackFile) = 2
    /\ slackFile[1].id = 2
    /\ slackFile[2].id = 1

-----------------------------------------------------------------------------
(* The audit logs on a disk that fails *)

\* What a damaged file holds: one overwritten with text that is no JSON has
\* lost the list; a file whose permissions changed keeps it.
Damage(file, state) == IF state = "unparsable" THEN <<>> ELSE file

\* The damage a file in a given state can take: a file that holds a list can
\* be overwritten with text that is no JSON (as a crash in the middle of a
\* write leaves it) or lose the permission to be read or to be written; one
\* that does not exist can become impossible to create. A file is damaged once: a restored file is
\* not damaged again.
Damages(state) ==
    CASE state = "ok" -> {"unparsable", "writeonly", "readonly"}
      [] state = "missing" -> {"unreadable"}
      [] OTHER -> {}

\* Something outside the program damages a log file. (app.py never opens
\* SLACK_RESPONSE_FILE.)
FileFault(f, state) ==
    /\ IF f = "slack"
       THEN /\ variant = "events"
            /\ state \in Damages(slackDisk)
            /\ slackDisk' = state
            /\ slackFile' = Damage(slackFile, state)
            /\ UNCHANGED <<agentFile, agentDisk>>
       ELSE /\ state \in Damages(agentDisk)
            /\ agentDisk' = state
            /\ agentFile' = Damage(agentFile, state)
            /\ UNCHANGED <<slackFile, slackDisk>>
    /\ UNCHANGED <<call, result, variant, req, processed_timestamps,
                   event_queue, worker, restarts>>

NextIO ==
    \/ Serve
    \/ \E f \in {"slack", "agent"}, state \in DiskStates :
          FileFault(f, state)

SpecIO == Init /\ [][NextIO]_vars

\* A request that ended 500 for a reason that is no failure of the disk: the
\* url_verification without a challenge, and the run whose first agent call
\* raised (dag_details unbound).
OtherCrash(r) ==
    \/ req[r].kind = "urlverify_nochallenge"
    \/ req[r].dag_details = "unbound"

\* The step wrote the log (it found it writable and left it in order)
\* after a load that failed.
WroteAfterFailedLoad(state, state2) ==
    /\ ~Readable(state) /\ Writable(state)
    /\ state2 \in {"ok", "restored"}

\* C16: a log file that is missing, unreadable or unparsable loads as the
\* empty list and the caller goes on: nothing is a duplicate of what cannot
\* be read, and an append writes the new record alone. A write that fails
\* leaves the file as it was and the step goes on. No request ends 500
\* because of the disk: a message is answered 200 whatever the state of the
\* files; and the worker returns to the queue after every event.
C16_StoreFailuresNotFatal ==
    /\ [](/\ ~Readable(slackDisk) =>
                load_existing_events(slackFile, slackDisk) = <<>>
          /\ ~Readable(agentDisk) =>
                load_existing_events(agentFile, agentDisk) = <<>>
          /\ \A r \in Reqs :
                Answered(r) /\ ~OtherCrash(r) => req[r].resp.code # 500
          /\ worker.pc \in {"get", "agent"})
    /\ [][/\ WroteAfterFailedLoad(slackDisk, slackDisk') => Len(slackFile') = 1
          /\ WroteAfterFailedLoad(agentDisk, agentDisk') => Len(agentFile') = 1
          /\ (~Writable(slackDisk) /\ slackDisk' = slackDisk)
                => slackFile' = slackFile
          /\ (~Writable(agentDisk) /\ agentDisk' = agentDisk)
                => agentFile' = agentFile
          /\ \A r \in Reqs :
                (req[r].pc = "new" /\ req'[r].pc # "new") =>
                    /\ (variant = "events" /\ ~Readable(slackDisk))
                          => req'[r].gate # "dup"
                    /\ req'[r].kind = "message" =>
                          req'[r].resp.code \in {0, 200}
          /\ \A r \in Reqs :
                (InFlight(r) /\ req'[r].pc = "done" /\ ~OtherCrash(r)')
                    => req'[r].resp.code = 200
          /\ (worker.pc = "agent" /\ worker' # worker)
                => worker' = IdleWorker]_vars

\* The event log could not be written when the first event was accepted;
\* the event was answered 200 all the same, and so was a later one.
C16_Witness ==
    /\ slackDisk = "unreadable"
    /\ \A r \in Reqs : Passed(r) /\ Answered(r) /\ req[r].resp.code = 200
    /\ slackFile = <<>>

-----------------------------------------------------------------------------
(* app.py: the queue and its worker, with a fair scheduler *)

InitApp == Init /\ variant = "app"

NextApp == ServeApp \/ Restart

\* The worker thread is a daemon thread of the process and gets its turn:
\* when the queue holds an event and the worker waits in get(), it takes
\* the event. Nothing in the program makes a pending agent call end.
SpecQueue == InitApp /\ [][NextApp]_vars /\ WF_vars(WorkerGet)

Queued(r) == req[r].wf = "queued"

\* The event of request r was handed to process_event.
Handed(r) == req[r].wf \in {"running", "handled"}

\* Number of places of the queue that hold request r.
InQueue(r) == Cardinality({i \in 1..Len(event_queue) : event_queue[i] = r})

\* C17: putting an event on the queue always succeeds at once (the handler
\* that accepts a message has queued it when it answers); while the process
\* keeps running no queued event is dropped and none is handed to
\* process_event twice; and, the worker being scheduled fairly, every
\* queued event is eventually taken from the queue and handed to
\* process_event (or the process was restarted).
C17_QueueDelivery ==
    /\ [](\A r \in Reqs :
            /\ (variant = "app" /\ Passed(r)) => req[r].wf # "none"
            /\ InQueue(r) = (IF Queued(r) THEN 1 ELSE 0))
    /\ [][\A r \in Reqs :
            /\ Queued(r) => (Queued(r)' \/ Handed(r)' \/ req'[r].wf = "lost")
            /\ Handed(r) => ~Queued(r)'
            /\ req[r].wf = "handled" => req'[r].wf = "handled"]_vars
    /\ \A r \in Reqs : Queued(r) ~> (Handed(r) \/ req[r].wf = "lost")

-----------------------------------------------------------------------------
(* parse_slack_text of slack_handler/utils.py and of slack_parser.py *)

\* Texts of up to MaxTextLen fragments, and the missing text.
MaxTextLen == 2

Fragments ==
    {Tok("DAG", "d1"), Tok("DAGc", "d1"), Tok("RunDate", "r1"),
     Tok("word", "failed"), Tok("word", "success"), Tok("word", "succeeded"),
     Tok("word", "hello")}

ParseTexts ==
    {NoText} \cup UNION {[1..n -> Fragments] : n \in 0..MaxTextLen}

Parsers == {"slack_handler/utils.py", "parse_slack_event/slack_parser.py"}

ParseCalls == [fn : {"parse_slack_text"}, parser : Parsers, text : ParseTexts]

InitParse == Quiescent /\ call \in ParseCalls /\ result = NoResult

ApplyParse ==
    /\ call.fn = "parse_slack_text"
    /\ ~result.done
    /\ result' = Returns(IF call.parser = "slack_handler/utils.py"
                         THEN parse_slack_text(call.text)
                         ELSE parse_slack_text_app(call.text))
    /\ UNCHANGED <<program, call>>

SpecParse == InitParse /\ [][ApplyParse]_vars

HasKeyword(text) ==
    \E w \in {"failed", "success", "succeeded"} : HasWord(text, w)

\* C18: for every text, the missing text included, parse_slack_text returns
\* a record whose status is one of failed, succeeded ("success" in the
\* code) and unknown (None in utils.py), and is unknown whenever the text
\* holds neither a failure nor a success keyword.
C18_TotalStatus ==
    result.done =>
        /\ result.value.status \in {"failed", "success", "unknown", None}
        /\ ~HasKeyword(call.text) => result.value.status \in {"unknown", None}

-----------------------------------------------------------------------------
(* URL verification *)

\* C19: an authenticated request whose JSON envelope has type
\* url_verification (and holds a challenge) is answered, in the step that
\* receives it, with the challenge as plain text and status 200; that step
\* leaves the audit logs, the timestamp set and the queue as they were, and
\* the request is never marked, queued or given an agent call.
C19_UrlVerification ==
    /\ [][\A r \in Reqs :
            (req[r].pc = "new" /\ req'[r].kind = "urlverify") =>
                /\ req'[r].pc = "done"
                /\ req'[r].resp = Resp(200, "challenge")
                /\ UNCHANGED stores]_vars
    /\ [](\A r \in Reqs : req[r].kind = "urlverify" =>
            /\ req[r].resp = Resp(200, "challenge")
            /\ req[r].gate = "none" /\ req[r].wf = "none" /\ req[r].calls = 0
            /\ EntriesOf(slackFile, r) = 0 /\ EntriesOf(agentFile, r) = 0)

\* A URL verification was answered while an accepted event was waiting for
\* its agent call or on the queue.
C19_Witness ==
    \E r \in Reqs :
        /\ req[r].kind = "urlverify" /\ req[r].resp = Resp(200, "challenge")
        /\ \E q \in Reqs : Passed(q) /\ (InFlight(q) \/ req[q].wf = "queued")

-----------------------------------------------------------------------------
(* events.py: the order of the four agent calls *)

\* The calls of the run of request r that have returned.
ReturnedSteps(r) ==
    IF InFlight(r) THEN req[r].calls - 1
    ELSE IF req[r].failed > 0 THEN req[r].failed - 1
    ELSE req[r].calls

\* C20: in every run of events.py the calls are started in the order fetch
\* details, fetch logs, analyze, notify, each at most once; call k + 1 is
\* started in the step in which call k returns, never before and never
\* again; the query of the analysis embeds what the logs call returned, and
\* the query of the Slack message what the analysis returned.
C20_StepOrder ==
    /\ [](\A r \in Reqs : variant = "events" =>
            LET q == req[r].queries IN
            /\ Len(q) = req[r].calls /\ Len(q) <= 4
            /\ \A i \in 1..Len(q) : q[i].step = i
            /\ InFlight(r) => StepOf(req[r].pc) = Len(q)
            /\ ReturnedSteps(r) >= Len(q) - 1
            /\ Len(q) >= 3 => q[3].embeds = Result(2)
            /\ Len(q) >= 4 => q[4].embeds = Result(3))
    /\ [][\A r \in Reqs : variant = "events" =>
            /\ req'[r].calls \in {req[r].calls, req[r].calls + 1}
            /\ req'[r].calls = req[r].calls + 1 =>
                  \/ req[r].pc = "new"
                  \/ /\ InFlight(r)
                     /\ StepResult(req'[r], req[r].calls) = Result(req[r].calls)
            /\ SubSeq(req'[r].queries, 1, Len(req[r].queries)) = req[r].queries]_vars

\* A run has started all four calls, the last with the analysis in its
\* query.
C20_Witness ==
    /\ variant = "events"
    /\ \E r \in Reqs :
          /\ req[r].pc = "step4"
          /\ Len(req[r].queries) = 4
          /\ req[r].queries[4].embeds = Result(3)

-----------------------------------------------------------------------------
(* C21 *)

\* The run of request r has started and its steps are not all over.
RunInProgress(r) == InFlight(r) \/ req[r].wf = "running"

\* The run of request r has ended: every step it started has returned or
\* raised, and the handler (events.py) or process_event (app.py) is over.
RunOver(r) ==
    /\ req[r].calls > 0
    /\ \/ variant = "events" /\ Answered(r)
       \/ variant = "app" /\ req[r].wf = "handled"

\* C21 (as claimed): every run writes to the workflow-outcome log exactly
\* once and only after all its steps are over: a run in progress has no
\* entry, no run has two entries, and a run that is over has one entry.
C21_SinglePersistence ==
    \A r \in Reqs :
        /\ RunInProgress(r) => EntriesOf(agentFile, r) = 0
        /\ EntriesOf(agentFile, r) <= 1
        /\ RunOver(r) => EntriesOf(agentFile, r) = 1

-----------------------------------------------------------------------------
(* C22 *)

\* old is what is left of new when entries are taken from its front.
IsSuffix(old, new) ==
    /\ Len(old) <= Len(new)
    /\ SubSeq(new, Len(new) - Len(old) + 1, Len(new)) = old

\* A step of the program, not a damage done to a file from outside: a log
\* file is in the state it was in or in the state a save leaves it in.
ProgramStep ==
    /\ slackDisk' \in {slackDisk, AfterSave(slackDisk)}
    /\ agentDisk' \in {agentDisk, AfterSave(agentDisk)}

\* A write of the program to a log: the loaded list with one record put in
\* front when the load succeeded, the new record alone when it failed.
AppendOrReplace(file, state, file2) ==
    file2 # file =>
        IF Readable(state)
        THEN Len(file2) = Len(file) + 1 /\ IsSuffix(file, file2)
        ELSE Len(file2) = 1

\* C22 (as claimed): the logs are append-only whatever the loads do: every
\* step of the webhook handlers and of the worker leaves each log with its
\* previous contents as a suffix, also when the load of the log failed.
C22_AppendOnly ==
    [][ProgramStep =>
          /\ IsSuffix(slackFile, slackFile')
          /\ IsSuffix(agentFile, agentFile')]_vars

\* C22 (amended): a step of the program that changes a log whose load
\* succeeds puts exactly one record in front of the previous contents,
\* which stay as they were; when the load fails (the file cannot be read)
\* and the write succeeds, the log holds the new record alone afterwards
\* and the entries it held are gone.
C22_AppendOnlyWhileLoads ==
    [][ProgramStep =>
          /\ AppendOrReplace(slackFile, slackDisk, slackFile')
          /\ AppendOrReplace(agentFile, agentDisk, agentFile')]_vars

\* Two messages were saved, the second after the event log had become
\* impossible to read: the log holds the second record alone.
C22_Witness ==
    /\ slackDisk = "writeonly"
    /\ Passed(1) /\ Passed(2)
    /\ Len(slackFile) = 1
    /\ slackFile[1].id = 2

-----------------------------------------------------------------------------
(* C23 *)

\* The handler of request r has appended to the event log (lines 102-105).
SavedEvent(r) == variant = "events" /\ Passed(r)

\* The handler of request r has appended to the outcome log (165-167).
SavedRun(r) ==
    /\ variant = "events" /\ Answered(r)
    /\ req[r].calls = 4 /\ req[r].dag_details # "unbound"

\* C23: in events.py the handlers of two requests that run at the same time
\* (each yields only at its awaited agent calls; load, insert and save run
\* without a yield) never lose an append: when both have appended to the
\* event log both records are in it, when both have appended to the outcome
\* log both records are in it, and every step leaves each log with its
\* previous contents as a suffix.
C23_NoLostUpdate ==
    /\ [](\A r1, r2 \in Reqs :
            /\ SavedEvent(r1) /\ SavedEvent(r2) =>
                  EntriesOf(slackFile, r1) = 1 /\ EntriesOf(slackFile, r2) = 1
            /\ SavedRun(r1) /\ SavedRun(r2) =>
                  EntriesOf(agentFile, r1) = 1 /\ EntriesOf(agentFile, r2) = 1)
    /\ [][IsSuffix(slackFile, slackFile') /\ IsSuffix(agentFile, agentFile')]_vars

\* Two runs overlapped: request 1 arrived first and its run ended last (its
\* outcome lies in front of the outcome of request 2), and both logs hold
\* both records.
C23_Witness ==
    /\ variant = "events"
    /\ Len(slackFile) = 2
    /\ Len(agentFile) = 2
    /\ agentFile[1].id = 1
    /\ agentFile[2].id = 2
    /\ req[1].epoch = req[2].epoch

-----------------------------------------------------------------------------
(* C24 *)

\* A message whose text gives no workflow name.
NoName(r) == IsMessage(r) /\ ~Truthy(DagOf(r))

\* C24 (as claimed): an answered message without a workflow name, whatever
\* its status, has one entry in the event-audit log, made no capability
\* call, has no entry in the workflow-outcome log and was answered 200.
C24_MissingNameNoAction ==
    \A r \in Reqs : NoName(r) /\ Answered(r) =>
        /\ EntriesOf(slackFile, r) = 1
        /\ req[r].calls = 0
        /\ EntriesOf(agentFile, r) = 0
        /\ req[r].resp.code = 200

\* C24 (amended): a message without a workflow name, whatever its status,
\* never starts a step and never gets an entry in the workflow-outcome log,
\* and it is answered 200. In events.py it is never a duplicate, it has one
\* entry in the event-audit log and its answer is the plain status ok; in
\* app.py it has no entry in the event-audit log.
C24_MissingNameNoRun ==
    \A r \in Reqs : NoName(r) =>
        /\ req[r].calls = 0
        /\ ~RunInProgress(r)
        /\ EntriesOf(agentFile, r) = 0
        /\ Answered(r) => req[r].resp.code = 200
        /\ Answered(r) /\ variant = "events" =>
              /\ Passed(r)
              /\ req[r].resp = Resp(200, "ok")
              /\ EntriesOf(slackFile, r) = 1
        /\ variant = "app" => EntriesOf(slackFile, r) = 0

\* events.py answered a failed incident that names no workflow: it is in
\* the event-audit log and the workflow-outcome log is empty.
C24_Witness ==
    /\ variant = "events"
    /\ agentFile = <<>>
    /\ \E r \in Reqs :
          /\ req[r].text = TextFailNoName
          /\ NoName(r) /\ Answered(r)
          /\ req[r].resp = Resp(200, "ok")
          /\ EntriesOf(slackFile, r) = 1

-----------------------------------------------------------------------------
(* C25 *)

\* Both variants with the worker thread of app.py scheduled fairly. An agent
\* call is awaited (events.py) or run to its end (app.py) without a
\* timeout: nothing makes a call return or raise, so no fairness is assumed
\* of AgentReturns, AgentRaises, WorkerAgentReturns and WorkerAgentRaises.
SpecFair == Init /\ [][Next]_vars /\ WF_vars(WorkerGet)

\* C25 (as claimed): a capability call that does not return is ended as a
\* step failure after a bounded wait: every run that is in progress
\* eventually is over (or the process was restarted), and the worker that
\* is in an agent call eventually is back at the queue.
C25_HangIsStepFailure ==
    /\ \A r \in Reqs : RunInProgress(r) ~> ~RunInProgress(r)
    /\ (worker.pc = "agent") ~> (worker.pc = "get")

-----------------------------------------------------------------------------
(* agent_handler/agent.py and agent.py: agent *)

\* What the model call of agent() does and what its tools do.
Outcomes == {"returns", "raises"}

\* What json.loads makes of the text the model returned: no JSON, JSON that
\* is no object, or an object (a directive).
JsonKinds == {"invalid", "array", "string", "number", "null", "object"}

\* The calls of agent(query): the module, the outcome of chain.invoke, the
\* text it returned (with or without white space around it; the fields of
\* the directive when the text is a JSON object) and the outcome of the
\* tool the handler calls.
AgentCalls ==
    [fn : {"agent"}, module : Modules, llm : {"raises"}, pad : {FALSE},
     json : {"invalid"}, action : {Absent}, argument : {Missing},
     tool : {"returns"}]
    \cup [fn : {"agent"}, module : Modules, llm : {"returns"}, pad : BOOLEAN,
          json : JsonKinds \ {"object"}, action : {Absent},
          argument : {Missing}, tool : {"returns"}]
    \cup [fn : {"agent"}, module : Modules, llm : {"returns"}, pad : BOOLEAN,
          json : {"object"}, action : ActionNames, argument : Arguments,
          tool : Outcomes]

\* content.strip()
strip(content) == [content EXCEPT !.pad = FALSE]

\* response.content of the call c.
ContentOf(c) ==
    [pad |-> c.pad, json |-> c.json, action |-> c.action,
     argument |-> c.argument]

\* The handlers whose run calls a tool or the model; AnswerAction returns
\* its argument and SaveDagDetailsAction catches every exception.
UsesTool(handler) ==
    handler \in {"FetchDagDetailsAction", "FetchLogsAction",
                 "AnalyzeLogsAction", "SendToSlackAction", "ListDagsAction"}

\* dispatch_action(json.loads(content)): json.loads raises on text that is
\* no JSON, response_json.get raises on a value that is no object, and the
\* handler raises when its tool does.
ParseAndDispatch(module, content, tool) ==
    CASE content.json = "invalid" -> Raise("JSONDecodeError")
      [] content.json = "object" ->
            LET response_json ==
                    [action |-> content.action, argument |-> content.argument]
                d == dispatch_action(module, response_json)
            IN  IF /\ d.k # "raise" /\ tool = "raises"
                   /\ UsesTool(RegistryGet(module,
                          GetOr(content.action, Absent, "answer"),
                          "AnswerAction"))
                THEN Raise("ToolError")
                ELSE d
      [] OTHER -> Raise("AttributeError")

\* What agent returns: the text of the model, or what the handler returned.
ReturnsContent(content) == [k |-> "content", v |-> content]
ReturnsDispatched(d) == [k |-> "dispatched", v |-> d]

\* Mutant of agent: dispatch_action is called after the try statement, which
\* holds json.loads alone.
agent_dispatch_outside_try(module, c) ==
    IF c.llm = "raises" THEN Raise("ConnectionError")
    ELSE LET content == strip(ContentOf(c))
             d == ParseAndDispatch(module, content, c.tool)
         IN  IF d.k = "raise"
             THEN IF d.v = "JSONDecodeError"
                  THEN ReturnsContent(content) ELSE d
             ELSE ReturnsDispatched(d)

\* agent(query): chain.invoke is called outside the try statement; inside
\* it, json.loads and dispatch_action; except Exception returns content.
agent(module, c) ==
    IF c.llm = "raises" THEN Raise("ConnectionError")
    ELSE LET content == strip(ContentOf(c))
             d == ParseAndDispatch(module, content, c.tool)
         IN  IF d.k = "raise" THEN ReturnsContent(content)
             ELSE ReturnsDispatched(d)

InitAgent == Quiescent /\ call \in AgentCalls /\ result = NoResult

ApplyAgent ==
    /\ call.fn = "agent"
    /\ ~result.done
    /\ result' = Returns(agent(call.module, call))
    /\ UNCHANGED <<program, call>>

SpecAgent == InitAgent /\ [][ApplyAgent]_vars

\* The handler the directive of the call is dispatched to raises: its tool
\* raises, or the action name cannot be hashed.
HandlerRaises ==
    /\ call.json = "object"
    /\ \/ call.action = Unhashable
       \/ /\ call.tool = "raises"
          /\ UsesTool(RegistryGet(call.module,
                 GetOr(call.action, Absent, "answer"), "AnswerAction"))

\* C26: agent(query) returns the text of the decision capability (stripped
\* of the white space around it) instead of raising when that text is no
\* JSON, is JSON that is no object, or when the dispatched handler raises;
\* agent raises only when the call of the decision capability itself does.
C26_PassThrough ==
    result.done =>
        /\ (result.value.k = "raise") <=> (call.llm = "raises")
        /\ ( /\ call.llm = "returns"
             /\ \/ call.json # "object"
                \/ HandlerRaises ) =>
              result.value = ReturnsContent(strip(ContentOf(call)))

\* A directive was dispatched to a handler whose tool raised, and agent
\* returned the text of the directive.
C26_Witness ==
    /\ result.done
    /\ call.llm = "returns" /\ call.json = "object"
    /\ call.action = "fetch_logs" /\ call.tool = "raises"
    /\ call.pad
    /\ result.value.k = "content"
    /\ result.value.v.action = "fetch_logs"
    /\ ~result.value.v.pad

-----------------------------------------------------------------------------
(* C27 *)

\* Two entries of the event log carry the same key, both parts non-empty.
SameKeyEntries(i, j) ==
    /\ Truthy(slackFile[i].dag_name) /\ Truthy(slackFile[i].run_date)
    /\ slackFile[i].dag_name = slackFile[j].dag_name
    /\ slackFile[i].run_date = slackFile[j].run_date

\* C27: in events.py, the loads of the log succeeding, the event-audit log
\* never holds two entries that carry the same non-empty workflow name and
\* the same non-empty run date; the step that answers a message as a
\* duplicate leaves the event-audit log as it was.
C27_NoTwoEntriesPerKey ==
    /\ [](variant = "events" =>
            \A i, j \in 1..Len(slackFile) : SameKeyEntries(i, j) => i = j)
    /\ [][\A r \in Reqs :
            variant = "events" /\ ~Dup(r) /\ Dup(r)' =>
                slackFile' = slackFile]_vars

\* The second delivery of a key was answered as a duplicate and the event
\* log holds the one entry of the first delivery.
C27_Witness ==
    /\ variant = "events"
    /\ Keyed(1) /\ Keyed(2) /\ SameKey(1, 2)
    /\ Passed(1) /\ Dup(2) /\ Answered(2)
    /\ Len(slackFile) = 1
    /\ slackFile[1].id = 1

-----------------------------------------------------------------------------
(* C28 *)

\* C28: in events.py an event that carries a workflow name and a run date
\* marks its key whatever its status: a failed incident that arrives after
\* an event of the same key and of another status (succeeded, unknown) was
\* saved is answered as a duplicate, starts no step and gets no entry in
\* either log.
C28_KeyMarkedWhateverStatus ==
    \A r1, r2 \in Reqs :
        ( /\ variant = "events"
          /\ r1 < r2
          /\ Keyed(r1) /\ NotFailed(r1) /\ Passed(r1)
          /\ FailedIncident(r2) /\ Keyed(r2) /\ SameKey(r1, r2)
          /\ req[r2].pc # "new" ) =>
            /\ Dup(r2) /\ Answered(r2)
            /\ req[r2].calls = 0
            /\ EntriesOf(agentFile, r2) = 0
            /\ EntriesOf(slackFile, r2) = 0

\* A succeeded event of key (d1, r1) was saved, and the failed incident of
\* the same key that came after it was answered as a duplicate.
C28_Witness ==
    /\ variant = "events"
    /\ req[1].text = TextSuccKey1 /\ Passed(1)
    /\ req[2].text = TextFailKey1 /\ Dup(2) /\ Answered(2)
    /\ agentFile = <<>>

-----------------------------------------------------------------------------
(* C29 *)

\* The process stopped while the run of request r was in flight.
Killed(r) == req[r].pc = "killed"

\* C29: in events.py the event is saved (the key is marked) before the
\* first step starts; a run that was in flight when the process stopped is
\* not resumed by the process that starts next and is never written to the
\* workflow-outcome log; and every later delivery of the key of such a run
\* is answered as a duplicate, starts no step and is never written to the
\* workflow-outcome log either.
C29_NoRunAfterCrash ==
    \A r \in Reqs : variant = "events" =>
        /\ InFlight(r) => EntriesOf(slackFile, r) = 1
        /\ req[r].epoch < restarts => ~InFlight(r)
        /\ Killed(r) =>
              /\ EntriesOf(slackFile, r) = 1
              /\ EntriesOf(agentFile, r) = 0
              /\ \A r2 \in Reqs :
                    ( /\ r < r2 /\ req[r2].pc # "new"
                      /\ Keyed(r) /\ IsMessage(r2) /\ SameKey(r, r2) ) =>
                        /\ Dup(r2) /\ Answered(r2)
                        /\ req[r2].calls = 0
                        /\ EntriesOf(agentFile, r2) = 0

\* The process stopped during the run of request 1; after the restart the
\* same incident was delivered again and answered as a duplicate; the
\* workflow-outcome log is empty.
C29_Witness ==
    /\ variant = "events"
    /\ Killed(1) /\ Keyed(1)
    /\ req[2].text = req[1].text
    /\ req[2].epoch > req[1].epoch
    /\ Dup(2) /\ Answered(2)
    /\ agentFile = <<>>

-----------------------------------------------------------------------------
(* C30 *)

\* The event of request r was put on the queue by the running process.
Enqueued(r) ==
    /\ IsMessage(r) /\ Passed(r)
    /\ req[r].epoch = restarts

\* C30: in app.py, while the process runs, processed_timestamps only grows;
\* a message is put on the queue if and only if its timestamp was not in
\* processed_timestamps when it arrived, and its timestamp is in the set
\* when it is on the queue; so the running process has put on the queue at
\* most one event for each timestamp, and the timestamp of every event
\* that it queued or processed is in processed_timestamps.
C30_TimestampsGate ==
    /\ [][variant = "app" =>
            /\ restarts' = restarts =>
                  processed_timestamps \subseteq processed_timestamps'
            /\ \A r \in Reqs :
                  (req[r].pc = "new" /\ IsMessage(r)') =>
                      /\ Queued(r)' <=> req[r].ts' \notin processed_timestamps
                      /\ InQueue(r)' = 1 <=> req[r].ts' \notin processed_timestamps
                      /\ req[r].ts' \in processed_timestamps']_vars
    /\ [](variant = "app" =>
            /\ \A r \in Reqs :
                  Enqueued(r) => req[r].ts \in processed_timestamps
            /\ \A r \in Reqs :
                  InQueue(r) > 0 =>
                      InQueue(r) = 1 /\ req[r].ts \in processed_timestamps
            /\ \A r1, r2 \in Reqs :
                  Enqueued(r1) /\ Enqueued(r2) /\ req[r1].ts = req[r2].ts =>
                      r1 = r2)

\* Two messages of one timestamp arrived at the same process: the first
\* was put on the queue, the second was answered as a duplicate.
C30_Witness ==
    /\ variant = "app"
    /\ IsMessage(1) /\ IsMessage(2)
    /\ req[1].ts = req[2].ts
    /\ req[1].epoch = restarts /\ req[2].epoch = restarts
    /\ Enqueued(1) /\ Dup(2)
    /\ processed_timestamps = {req[1].ts}

-----------------------------------------------------------------------------
(* C31 *)

\* A message event that has no "ts" field: event.get("ts") is None.
NoTimestamp(r) == IsMessage(r) /\ req[r].ts = None

\* C31: in app.py a message without a timestamp is keyed by None: the first
\* one a process receives is put on the queue (None is added to
\* processed_timestamps), and every later one that process receives is
\* answered as a duplicate and never put on the queue, whatever its text,
\* workflow name and run date.
C31_AbsentTimestampKey ==
    \A r1, r2 \in Reqs :
        ( /\ variant = "app"
          /\ r1 < r2
          /\ NoTimestamp(r1) /\ NoTimestamp(r2)
          /\ req[r1].epoch = req[r2].epoch
          /\ req[r2].pc # "new" ) =>
            /\ Passed(r1) \/ Dup(r1)
            /\ (\A r0 \in Reqs :
                   r0 < r1 /\ req[r0].epoch = req[r1].epoch =>
                       ~NoTimestamp(r0)) => Passed(r1)
            /\ Dup(r2) /\ Answered(r2)
            /\ req[r2].resp = Resp(200, "Duplicate message. Skipped.")
            /\ req[r2].wf = "none"
            /\ InQueue(r2) = 0
            /\ req[r2].calls = 0
            /\ req[r2].epoch = restarts => None \in processed_timestamps

\* Two failed incidents of different run dates arrived without a timestamp
\* at the same process: the first was queued, the second was answered as a
\* duplicate.
C31_Witness ==
    /\ variant = "app"
    /\ NoTimestamp(1) /\ NoTimestamp(2)
    /\ req[1].text = TextFailKey1 /\ req[2].text = TextFailKey2
    /\ req[1].epoch = req[2].epoch
    /\ Passed(1) /\ Dup(2) /\ Answered(2)

-----------------------------------------------------------------------------
(* C32 *)

\* process_event is in progress on the event of request r.
InProcess(r) == req[r].wf = "running"

\* process_event has returned for the event of request r.
Processed(r) == req[r].wf = "handled"

\* C32: app.py has one consumer that handles the events one at a time in
\* the order they were put on the queue: at most one process_event is in
\* progress, and it is the one of the worker; the event at the head of the
\* queue arrived before every other queued event; an event is started only
\* when process_event has returned for every event the process queued
\* before it; and an event whose processing failed (the agent call raised,
\* or the text could not be parsed) leaves the worker at the queue or at a
\* later event, never stopped.
C32_SingleConsumerFifo ==
    variant = "app" =>
        /\ \A r1, r2 \in Reqs : InProcess(r1) /\ InProcess(r2) => r1 = r2
        /\ \A r \in Reqs : InProcess(r) <=> (worker.pc = "agent" /\ worker.ev = r)
        /\ worker.pc \in {"get", "agent"}
        /\ \A i, j \in 1..Len(event_queue) : i < j => event_queue[i] < event_queue[j]
        /\ \A r1, r2 \in Reqs :
              ( /\ r1 < r2
                /\ Enqueued(r1) /\ Enqueued(r2)
                /\ Handed(r2) ) => Processed(r1)
        /\ \A r \in Reqs :
              Processed(r) /\ (req[r].failed > 0 \/ req[r].text = NoText) =>
                  worker.ev # r

\* The agent call of the first event raised, and the worker went on to the
\* second event, which was queued behind it.
C32_Witness ==
    /\ variant = "app"
    /\ Enqueued(1) /\ Enqueued(2)
    /\ Processed(1) /\ req[1].failed = 1
    /\ InProcess(2)
    /\ worker = [pc |-> "agent", ev |-> 2]

-----------------------------------------------------------------------------
(* C33 *)

\* C33: in app.py process_event makes at most one agent call for an event,
\* and only for an event of status failed that names its workflow; the
\* event has an entry in the workflow-outcome log if and only if that call
\* returned, and never two; when the call raises, the step leaves the
\* workflow-outcome log as it was and the event is done (process_event
\* has returned and the worker is back at the queue).
C33_OneCallPerEvent ==
    /\ [](variant = "app" =>
            \A r \in Reqs :
                /\ req[r].calls <= 1
                /\ req[r].calls = 1 => FailedIncident(r)
                /\ EntriesOf(agentFile, r) <= 1
                /\ EntriesOf(agentFile, r) = 1 <=>
                      (Processed(r) /\ req[r].calls = 1 /\ req[r].failed = 0)
                /\ req[r].failed > 0 =>
                      Processed(r) /\ EntriesOf(agentFile, r) = 0)
    /\ [][variant = "app" =>
            \A r \in Reqs :
                req[r].failed' > req[r].failed =>
                    /\ agentFile' = agentFile
                    /\ InProcess(r) /\ Processed(r)'
                    /\ worker' = IdleWorker]_vars

\* The agent call of a failed incident raised: the event is done, the
\* worker is back at the queue and the workflow-outcome log is empty.
C33_Witness ==
    /\ variant = "app"
    /\ agentFile = <<>>
    /\ worker = IdleWorker
    /\ \E r \in Reqs :
          /\ FailedIncident(r)
          /\ req[r].calls = 1 /\ req[r].failed = 1
          /\ Processed(r)

====
